---- MODULE Spec2Model ----
(***************************************************************************)
(* Model of eden/scm/edenscm/ext/github/gh_submit.py: the GitHub submit    *)
(* operations implemented on top of gh_cli.make_request.                   *)
(*                                                                         *)
(* Every operation is an async function with exactly one await.  It is     *)
(* modelled as three steps: the call (builds the request and hands it to   *)
(* make_request), the transport's answer, and the code after the await.    *)
(* JSON objects are records, JSON null / Python None is NULL, formatted    *)
(* strings (f-strings, %-formatting) are sequences of their pieces.        *)
(***************************************************************************)
EXTENDS Integers, Sequences, FiniteSets, TLC

VARIABLES pc, op, calls, response, ret, reserved

vars == <<pc, op, calls, response, ret, reserved>>

(* ------------------------------ bounds -------------------------------- *)

\* issue / pull request numbers range over 1..MaxIssue
MaxIssue == 2

Hostnames == {"github.com", "ghe.example.com"}
Owners == {"acme", "upstream-org"}
Names == {"widgets", "gadgets"}
Branches == {"main", "dev"}
Oids == {"0a1b", "2c3d"}
Texts == {"text"}
Issues == 1..MaxIssue

(* ------------------------- Python / Result ---------------------------- *)

\* JSON null, Python None
NULL == [tag |-> "null"]

\* no value yet (before the await returns / before the function returns)
NoResult == [tag |-> "none"]

\* Result(ok=v)
Ok(v) == [tag |-> "ok", ok |-> v]

\* Result(error=m)
Error(m) == [tag |-> "error", error |-> m]

\* Result.is_error()
is_error(r) == r.tag = "error"

\* subscripting None raises TypeError: the coroutine ends by an exception
Raised == [tag |-> "raised", exc |-> "TypeError"]

\* truth value of an Optional[dict with keys] / Optional[dataclass instance]
Truthy(x) == x /= NULL

(* ---------------------------- Repository ------------------------------ *)

\* faulty variant: the fork's own default branch, upstream ignored
get_base_branch_own(self) ==
    self.default_branch

\* faulty variant: "main" assumed when there is no upstream
get_base_branch_assume_main(self) ==
    IF Truthy(self.upstream) THEN self.upstream.default_branch ELSE "main"

get_base_branch(self) ==
    IF Truthy(self.upstream)
    THEN self.upstream.default_branch
    ELSE self.default_branch

get_upstream_owner_and_name(self) ==
    IF Truthy(self.upstream)
    THEN <<self.upstream.owner, self.upstream.name>>
    ELSE <<self.owner, self.name>>

\* the message of lines 130-140: the translated text with the URL
\* f"https://{hostname}/{owner}/{name}/new/main" substituted for %s
no_default_branch_message(hostname, owner, name) ==
    << "This repository has no default branch. This is likely because it is empty.\n\nConsider using ",
       "https://", hostname, "/", owner, "/", name, "/new/main",
       " to initialize your\nrepository.\n" >>

_parse_repository_from_dict(repo_obj, hostname, upstream) ==
    LET owner == repo_obj.owner.login
        name == repo_obj.name
        branch_ref == repo_obj.defaultBranchRef
    IN IF branch_ref = NULL
       THEN Error(no_default_branch_message(hostname, owner, name))
       ELSE Ok([ id |-> repo_obj.id,
                 hostname |-> hostname,
                 owner |-> owner,
                 name |-> name,
                 default_branch |-> branch_ref.name,
                 is_fork |-> repo_obj.isFork,
                 upstream |-> upstream ])

(* ------------------- requests built before the await ------------------ *)

\* a call gh_cli.make_request(params, hostname=..., endpoint=...); the
\* endpoint is the empty sequence when the keyword is not passed
Request(params, hostname, endpoint) ==
    [params |-> params, hostname |-> hostname, endpoint |-> endpoint]

get_repository_request(hostname, owner, name) ==
    Request([query |-> "GRAPHQL_GET_REPOSITORY", owner |-> owner, name |-> name],
            hostname, << >>)

get_pull_request_details_request(pr) ==
    Request([query |-> "GRAPHQL_GET_PULL_REQUEST", owner |-> pr.owner,
             name |-> pr.name, number |-> pr.number],
            pr.hostname, << >>)

create_pull_request_placeholder_issue_request(hostname, owner, name) ==
    Request([title |-> "placeholder for pull request"],
            hostname, <<"repos", "/", owner, "/", name, "/", "issues">>)

\* faulty variant: a title is sent along with the issue
create_pull_request_request_with_title(hostname, owner, name, base, head, body, issue, is_draft) ==
    Request([base |-> base, head |-> head, body |-> body, issue |-> issue,
             draft |-> is_draft, title |-> "placeholder for pull request"],
            hostname, <<"repos", "/", owner, "/", name, "/", "pulls">>)

create_pull_request_request(hostname, owner, name, base, head, body, issue, is_draft) ==
    Request([base |-> base, head |-> head, body |-> body, issue |-> issue,
             draft |-> is_draft],
            hostname, <<"repos", "/", owner, "/", name, "/", "pulls">>)

update_pull_request_request(hostname, node_id, title, body) ==
    Request([query |-> "GRAPHQL_UPDATE_PULL_REQUEST", pullRequestId |-> node_id,
             title |-> title, body |-> body],
            hostname, << >>)

create_branch_request(hostname, repo_id, branch_name, oid) ==
    Request([query |-> "GRAPHQL_CREATE_BRANCH", repositoryId |-> repo_id,
             name |-> <<"refs/heads/", branch_name>>, oid |-> oid],
            hostname, << >>)

merge_into_branch_request(hostname, repo_id, oid_to_merge, branch_name) ==
    Request([query |-> "GRAPHQL_MERGE_BRANCH", repositoryId |-> repo_id,
             base |-> branch_name, head |-> oid_to_merge],
            hostname, << >>)

get_username_request(hostname) ==
    Request([query |-> "GRAPHQL_GET_LOGIN"], hostname, << >>)

(* ----------------------- code after the await ------------------------- *)

\* faulty variant: a parent that fails to parse is dropped (upstream = None)
get_repository_fork_as_non_fork(result, hostname) ==
    IF is_error(result) THEN result
    ELSE LET repo == result.ok.data.repository
         IN IF repo = NULL THEN Raised
            ELSE LET parent == repo.parent
                     parsed == IF Truthy(parent)
                               THEN _parse_repository_from_dict(parent, hostname, NULL)
                               ELSE NoResult
                     upstream == IF Truthy(parent) /\ ~is_error(parsed)
                                 THEN parsed.ok ELSE NULL
                 IN _parse_repository_from_dict(repo, hostname, upstream)

\* faulty variant: the target repository is checked before its parent
get_repository_target_first(result, hostname) ==
    IF is_error(result) THEN result
    ELSE LET repo == result.ok.data.repository
         IN IF repo = NULL THEN Raised
            ELSE LET parent == repo.parent
                     own == _parse_repository_from_dict(repo, hostname, NULL)
                 IN IF is_error(own) THEN own
                    ELSE IF Truthy(parent)
                    THEN LET parsed == _parse_repository_from_dict(parent, hostname, NULL)
                         IN IF is_error(parsed) THEN parsed
                            ELSE _parse_repository_from_dict(repo, hostname, parsed.ok)
                    ELSE own

\* faulty variant: a parent that is a fork is given an upstream of its own
get_repository_chained(result, hostname) ==
    IF is_error(result) THEN result
    ELSE LET repo == result.ok.data.repository
         IN IF repo = NULL THEN Raised
            ELSE LET parent == repo.parent
                 IN IF Truthy(parent)
                    THEN LET top == _parse_repository_from_dict(parent, hostname, NULL)
                             parsed == IF is_error(top) \/ ~parent.isFork THEN top
                                       ELSE _parse_repository_from_dict(parent, hostname, top.ok)
                         IN IF is_error(parsed) THEN parsed
                            ELSE _parse_repository_from_dict(repo, hostname, parsed.ok)
                    ELSE _parse_repository_from_dict(repo, hostname, NULL)

\* lines 71-86
get_repository_resume(result, hostname) ==
    IF is_error(result) THEN result
    ELSE LET repo == result.ok.data.repository
         IN IF repo = NULL THEN Raised
            ELSE LET parent == repo.parent
                 IN IF Truthy(parent)
                    THEN LET parsed == _parse_repository_from_dict(parent, hostname, NULL)
                         IN IF is_error(parsed) THEN parsed
                            ELSE _parse_repository_from_dict(repo, hostname, parsed.ok)
                    ELSE _parse_repository_from_dict(repo, hostname, NULL)

\* lines 108-120
get_pull_request_details_resume(result, pr) ==
    IF is_error(result) THEN result
    ELSE LET repository == result.ok.data.repository
         IN IF repository = NULL THEN Raised
            ELSE LET data == repository.pullRequest
                 IN IF data = NULL THEN Raised
                    ELSE Ok([ node_id |-> data.id,
                              number |-> pr.number,
                              url |-> data.url,
                              head_oid |-> data.headRefOid,
                              head_branch_name |-> data.headRefName ])

\* lines 166-169
create_pull_request_placeholder_issue_resume(result) ==
    IF is_error(result) THEN result ELSE Ok(result.ok.number)

\* line 215: the awaited Result is returned as it is
create_pull_request_resume(result) ==
    result

\* faulty variant: the transport error is wrapped in a new message
update_pull_request_resume_wrapped(result) ==
    IF is_error(result)
    THEN Error(<<"update_pull_request failed: ">> \o result.error)
    ELSE LET payload == result.ok.data.updatePullRequest
         IN IF payload = NULL THEN Raised
            ELSE IF payload.pullRequest = NULL THEN Raised
            ELSE Ok(payload.pullRequest.id)

\* lines 231-234
update_pull_request_resume(result) ==
    IF is_error(result) THEN result
    ELSE LET payload == result.ok.data.updatePullRequest
         IN IF payload = NULL THEN Raised
            ELSE IF payload.pullRequest = NULL THEN Raised
            ELSE Ok(payload.pullRequest.id)

\* lines 250-253
create_branch_resume(result) ==
    IF is_error(result) THEN result
    ELSE LET payload == result.ok.data.createRef
         IN IF payload = NULL THEN Raised
            ELSE IF payload.ref = NULL THEN Raised
            ELSE Ok(payload.ref.id)

\* lines 267-270
merge_into_branch_resume(result) ==
    IF is_error(result) THEN result
    ELSE LET payload == result.ok.data.mergeBranch
         IN IF payload = NULL THEN Raised
            ELSE IF payload.mergeCommit = NULL THEN Raised
            ELSE Ok(payload.mergeCommit.oid)

\* lines 282-285
get_username_resume(result) ==
    IF is_error(result) THEN result ELSE Ok(result.ok.data.viewer.login)

\* faulty variant: a failed create_pull_request closes the placeholder issue
close_issue_on_failure(o, result) ==
    IF o.fn = "create_pull_request" /\ is_error(result)
    THEN << Request([state |-> "closed"], o.hostname,
                    <<"repos", "/", o.owner, "/", o.name, "/", "issues", "/", o.issue>>) >>
    ELSE << >>

\* the make_request calls an operation issues after its await has returned:
\* no function of the file awaits twice, whatever the first call returned
requests_after_await(o, result) ==
    << >>

(* ------------------ what the transport may answer --------------------- *)

\* an error Result of make_request: opaque text
TransportErrors == { Error(<<"HTTP 403: Forbidden">>),
                     Error(<<"HTTP 422: Validation Failed">>) }

\* defaultBranchRef { name }: null for an empty repository
BranchRefs == {NULL} \cup { [name |-> b] : b \in Branches }

\* the parent object of the GET_REPOSITORY answer, as far as the code reads it
ParentObjs ==
    [ id : {"R_parent"}, owner : { [login |-> o] : o \in Owners }, name : Names,
      defaultBranchRef : BranchRefs, isFork : BOOLEAN ]

\* the repository object of the GET_REPOSITORY answer, as far as the code reads it
RepositoryObjs ==
    [ id : {"R_repo"}, owner : { [login |-> o] : o \in Owners }, name : Names,
      defaultBranchRef : BranchRefs, isFork : BOOLEAN,
      parent : {NULL} \cup ParentObjs ]

PullRequestObjs ==
    [ id : {"PR_node"}, url : {"https://pr"}, headRefOid : Oids, headRefName : Branches ]

\* the non-error answers to each operation's request; an object the service
\* declares nullable may be null
OkResponses(fn) ==
    CASE fn = "get_repository" ->
           { Ok([data |-> [repository |-> r]]) : r \in {NULL} \cup RepositoryObjs }
      [] fn = "get_pull_request_details" ->
           { Ok([data |-> [repository |-> r]]) :
                r \in {NULL} \cup { [pullRequest |-> q] : q \in {NULL} \cup PullRequestObjs } }
      [] fn = "create_pull_request_placeholder_issue" ->
           { Ok([number |-> n]) : n \in Issues }
      [] fn = "create_pull_request" ->
           { Ok([number |-> n, node_id |-> "PR_node"]) : n \in Issues }
      [] fn = "update_pull_request" ->
           { Ok([data |-> [updatePullRequest |-> u]]) :
                u \in {NULL} \cup { [pullRequest |-> q] : q \in {NULL, [id |-> "PR_node"]} } }
      [] fn = "create_branch" ->
           { Ok([data |-> [createRef |-> u]]) :
                u \in {NULL} \cup { [ref |-> q] : q \in {NULL, [id |-> "REF_node"]} } }
      [] fn = "merge_into_branch" ->
           { Ok([data |-> [mergeBranch |-> u]]) :
                u \in {NULL} \cup { [mergeCommit |-> q] :
                                       q \in {NULL} \cup { [oid |-> x] : x \in Oids } } }
      [] fn = "get_username" ->
           { Ok([data |-> [viewer |-> [login |-> o]]]) : o \in Owners }

(* ---------------------------- the steps ------------------------------- *)

Init ==
    /\ pc = "idle"
    /\ op = [fn |-> "none"]
    /\ calls = << >>
    /\ response = NoResult
    /\ ret = NoResult
    /\ reserved = 0

\* a coroutine runs up to its await: the request is handed to make_request
Call(o, request) ==
    /\ pc \in {"idle", "done"}
    /\ pc' = "awaiting"
    /\ op' = o
    /\ calls' = <<request>>
    /\ response' = NoResult
    /\ ret' = NoResult
    /\ UNCHANGED reserved

\* a coroutine runs from its await to its end
Return(fn, value) ==
    /\ pc = "resumed"
    /\ op.fn = fn
    /\ pc' = "done"
    /\ ret' = value
    /\ calls' = calls \o requests_after_await(op, response)
    /\ UNCHANGED <<op, response>>

call_get_repository ==
    \E hostname \in Hostnames, owner \in Owners, name \in Names :
        Call([fn |-> "get_repository", hostname |-> hostname, owner |-> owner, name |-> name],
             get_repository_request(hostname, owner, name))

call_get_pull_request_details ==
    \E hostname \in Hostnames, owner \in Owners, name \in Names, number \in Issues :
        LET pr == [hostname |-> hostname, owner |-> owner, name |-> name, number |-> number]
        IN Call([fn |-> "get_pull_request_details", pr |-> pr],
                get_pull_request_details_request(pr))

call_create_pull_request_placeholder_issue ==
    \E hostname \in Hostnames, owner \in Owners, name \in Names :
        Call([fn |-> "create_pull_request_placeholder_issue",
              hostname |-> hostname, owner |-> owner, name |-> name],
             create_pull_request_placeholder_issue_request(hostname, owner, name))

call_create_pull_request ==
    \E hostname \in Hostnames, owner \in Owners, name \in Names, base \in Branches,
       head \in Branches, body \in Texts, issue \in Issues, is_draft \in BOOLEAN :
        Call([fn |-> "create_pull_request", hostname |-> hostname, owner |-> owner,
              name |-> name, base |-> base, head |-> head, body |-> body,
              issue |-> issue, is_draft |-> is_draft],
             create_pull_request_request(hostname, owner, name, base, head, body,
                                         issue, is_draft))

call_update_pull_request ==
    \E hostname \in Hostnames, title \in Texts, body \in Texts :
        Call([fn |-> "update_pull_request", hostname |-> hostname, node_id |-> "PR_node",
              title |-> title, body |-> body],
             update_pull_request_request(hostname, "PR_node", title, body))

call_create_branch ==
    \E hostname \in Hostnames, branch_name \in Branches, oid \in Oids :
        Call([fn |-> "create_branch", hostname |-> hostname, repo_id |-> "R_repo",
              branch_name |-> branch_name, oid |-> oid],
             create_branch_request(hostname, "R_repo", branch_name, oid))

call_merge_into_branch ==
    \E hostname \in Hostnames, branch_name \in Branches, oid_to_merge \in Oids :
        Call([fn |-> "merge_into_branch", hostname |-> hostname, repo_id |-> "R_repo",
              oid_to_merge |-> oid_to_merge, branch_name |-> branch_name],
             merge_into_branch_request(hostname, "R_repo", oid_to_merge, branch_name))

call_get_username ==
    \E hostname \in Hostnames :
        Call([fn |-> "get_username", hostname |-> hostname], get_username_request(hostname))

\* the awaited gh_cli.make_request completes with an error or with an answer
make_request ==
    /\ pc = "awaiting"
    /\ \E r \in TransportErrors \cup OkResponses(op.fn) : response' = r
    /\ pc' = "resumed"
    /\ UNCHANGED <<op, calls, ret, reserved>>

return_get_repository ==
    /\ Return("get_repository", get_repository_resume(response, op.hostname))
    /\ UNCHANGED reserved

return_get_pull_request_details ==
    /\ Return("get_pull_request_details", get_pull_request_details_resume(response, op.pr))
    /\ UNCHANGED reserved

\* the caller keeps the number a successful phase 1 returned, for phase 2
return_create_pull_request_placeholder_issue ==
    /\ Return("create_pull_request_placeholder_issue",
              create_pull_request_placeholder_issue_resume(response))
    /\ reserved' = IF ret'.tag = "ok" THEN ret'.ok ELSE reserved

return_create_pull_request ==
    /\ Return("create_pull_request", create_pull_request_resume(response))
    /\ UNCHANGED reserved

return_update_pull_request ==
    /\ Return("update_pull_request", update_pull_request_resume(response))
    /\ UNCHANGED reserved

return_create_branch ==
    /\ Return("create_branch", create_branch_resume(response))
    /\ UNCHANGED reserved

return_merge_into_branch ==
    /\ Return("merge_into_branch", merge_into_branch_resume(response))
    /\ UNCHANGED reserved

return_get_username ==
    /\ Return("get_username", get_username_resume(response))
    /\ UNCHANGED reserved

Next ==
    \/ call_get_repository
    \/ call_get_pull_request_details
    \/ call_create_pull_request_placeholder_issue
    \/ call_create_pull_request
    \/ call_update_pull_request
    \/ call_create_branch
    \/ call_merge_into_branch
    \/ call_get_username
    \/ make_request
    \/ return_get_repository
    \/ return_get_pull_request_details
    \/ return_create_pull_request_placeholder_issue
    \/ return_create_pull_request
    \/ return_update_pull_request
    \/ return_create_branch
    \/ return_merge_into_branch
    \/ return_get_username

Spec == Init /\ [][Next]_vars

(* ============================== claims ================================ *)

\* operation fn has run to its end
Done(fn) == pc = "done" /\ op.fn = fn

\* get_repository has run to its end on a non-error answer holding a repository
ResolvedRepository ==
    /\ Done("get_repository")
    /\ ~is_error(response)
    /\ response.ok.data.repository /= NULL

\* the repository object of the answer
Repo == response.ok.data.repository

\* the message holds <hostname>/<owner>/<name>
MessageNames(msg, hostname, owner, name) ==
    \E i \in 1..(Len(msg) - 4) :
        SubSeq(msg, i, i + 4) = <<hostname, "/", owner, "/", name>>

\* the message suggests initializing the repository
HasInitHint(msg) ==
    /\ Len(msg) >= 3
    /\ msg[1] = "This repository has no default branch. This is likely because it is empty.\n\nConsider using "
    /\ msg[Len(msg) - 1] = "/new/main"
    /\ msg[Len(msg)] = " to initialize your\nrepository.\n"

\* C1: when the answer holds a parent and both the repository and the parent
\* have a default branch, the returned Repository's base branch is the
\* parent's default branch and its upstream owner/name are the parent's.
C1_ForkTargetsParent ==
    ( /\ ResolvedRepository
      /\ Repo.parent /= NULL
      /\ Repo.defaultBranchRef /= NULL
      /\ Repo.parent.defaultBranchRef /= NULL )
    => /\ ret.tag = "ok"
       /\ get_base_branch(ret.ok) = Repo.parent.defaultBranchRef.name
       /\ get_upstream_owner_and_name(ret.ok)
             = <<Repo.parent.owner.login, Repo.parent.name>>

\* acme/widgets (default branch dev) forked from upstream-org/widgets (main)
C1_Witness ==
    /\ ResolvedRepository
    /\ Repo.owner.login = "acme" /\ Repo.name = "widgets"
    /\ Repo.defaultBranchRef = [name |-> "dev"]
    /\ Repo.parent /= NULL
    /\ Repo.parent.owner.login = "upstream-org" /\ Repo.parent.name = "widgets"
    /\ Repo.parent.defaultBranchRef = [name |-> "main"]
    /\ ret.tag = "ok"
    /\ get_base_branch(ret.ok) = "main"
    /\ get_upstream_owner_and_name(ret.ok) = <<"upstream-org", "widgets">>

C3_ErrorNamesTarget ==
    ( /\ ResolvedRepository
      /\ Repo.defaultBranchRef = NULL )
    => /\ ret.tag = "error"
       /\ HasInitHint(ret.error)
       /\ MessageNames(ret.error, op.hostname, Repo.owner.login, Repo.name)

\* C3 amended: when the target repository has no default branch the result is
\* an error with the hint; its message holds the hostname with the owner and
\* name of the parent when a parent is present that has no default branch
\* either (the parent is checked first), and of the target otherwise.
C3_ErrorNamesFirstEmpty ==
    ( /\ ResolvedRepository
      /\ Repo.defaultBranchRef = NULL )
    => /\ ret.tag = "error"
       /\ HasInitHint(ret.error)
       /\ LET blamed == IF Repo.parent /= NULL /\ Repo.parent.defaultBranchRef = NULL
                        THEN Repo.parent ELSE Repo
          IN ret.error = no_default_branch_message(op.hostname, blamed.owner.login,
                                                   blamed.name)
       /\ ( (Repo.parent = NULL \/ Repo.parent.defaultBranchRef /= NULL)
            => MessageNames(ret.error, op.hostname, Repo.owner.login, Repo.name) )

\* an empty fork acme/widgets of an empty parent upstream-org/gadgets: the
\* error names the parent, which is checked first, and not the target
C3_Witness ==
    /\ ResolvedRepository
    /\ Repo.defaultBranchRef = NULL
    /\ Repo.owner.login = "acme" /\ Repo.name = "widgets"
    /\ Repo.parent /= NULL
    /\ Repo.parent.owner.login = "upstream-org" /\ Repo.parent.name = "gadgets"
    /\ Repo.parent.defaultBranchRef = NULL
    /\ ret.tag = "error"
    /\ HasInitHint(ret.error)
    /\ MessageNames(ret.error, op.hostname, "upstream-org", "gadgets")
    /\ ~MessageNames(ret.error, op.hostname, "acme", "widgets")

\* C4: when the answer holds a parent that has no default branch, the result
\* is an error, never a Repository.
C4_EmptyParentFails ==
    ( /\ ResolvedRepository
      /\ Repo.parent /= NULL
      /\ Repo.parent.defaultBranchRef = NULL )
    => ret.tag = "error"

\* a fork with a default branch of its own whose parent is empty
C4_Witness ==
    /\ ResolvedRepository
    /\ Repo.defaultBranchRef /= NULL
    /\ Repo.isFork
    /\ Repo.parent /= NULL
    /\ Repo.parent.defaultBranchRef = NULL
    /\ ret.tag = "error"

\* C5: every request of create_pull_request goes to repos/<owner>/<name>/pulls
\* with a parameter `issue` equal to the issue argument and no parameter `title`.
C5_IssueNeverTitle ==
    (pc /= "idle" /\ op.fn = "create_pull_request")
    => /\ Len(calls) >= 1
       /\ \A i \in 1..Len(calls) :
             /\ "issue" \in DOMAIN calls[i].params
             /\ calls[i].params.issue = op.issue
             /\ "title" \notin DOMAIN calls[i].params
             /\ calls[i].hostname = op.hostname
             /\ calls[i].endpoint = <<"repos", "/", op.owner, "/", op.name, "/", "pulls">>

C5_Witness ==
    /\ pc = "awaiting"
    /\ op.fn = "create_pull_request"
    /\ op.issue = 2 /\ op.is_draft
    /\ Len(calls) = 1
    /\ calls[1].params.issue = 2
    /\ calls[1].params.draft = TRUE

\* C6: create_pull_request for the issue number phase 1 reserved makes exactly
\* one make_request call and returns what that call returned: its error when
\* it failed (no close, delete or second submission follows), its answer
\* unmodified when it succeeded.
C6_NoCompensation ==
    (Done("create_pull_request") /\ reserved = op.issue)
    => /\ Len(calls) = 1
       /\ calls[1].endpoint = <<"repos", "/", op.owner, "/", op.name, "/", "pulls">>
       /\ ret.tag = response.tag
       /\ ret = response

\* phase 1 reserved 2, phase 2 for issue 2 failed
C6_Witness ==
    /\ Done("create_pull_request")
    /\ reserved = 2 /\ op.issue = 2
    /\ is_error(response)
    /\ ret = response
    /\ Len(calls) = 1

\* C7: every operation ends by returning an ok or an error Result, never by
\* an exception.
C7_NoOperationRaises ==
    pc = "done" => ret.tag \in {"ok", "error"}

\* C8: a Repository returned by get_repository with is_fork true has an upstream.
C8_ForkHasUpstream ==
    (Done("get_repository") /\ ret.tag = "ok")
    => (ret.ok.is_fork => ret.ok.upstream /= NULL)

\* C9: when make_request returns an error, the operation returns that same
\* error and has made exactly one make_request call.
C9_ErrorPassedThrough ==
    (pc = "done" /\ is_error(response))
    => /\ ret.tag = "error"
       /\ ret = response
       /\ Len(calls) = 1

C9_Witness ==
    /\ Done("update_pull_request")
    /\ response = Error(<<"HTTP 422: Validation Failed">>)
    /\ ret = response
    /\ Len(calls) = 1

\* C10: the upstream of a returned Repository has no upstream of its own,
\* also when the parent is itself a fork, and get_repository makes one call.
C10_OneHop ==
    (Done("get_repository") /\ ret.tag = "ok")
    => /\ Len(calls) = 1
       /\ (ret.ok.upstream /= NULL => ret.ok.upstream.upstream = NULL)

\* a fork whose parent is itself a fork
C10_Witness ==
    /\ ResolvedRepository
    /\ Repo.parent /= NULL
    /\ Repo.parent.isFork
    /\ ret.tag = "ok"
    /\ ret.ok.upstream /= NULL
    /\ ret.ok.upstream.is_fork
    /\ ret.ok.upstream.upstream = NULL

====
